---- MODULE Spec2Model ----
(***************************************************************************)
(* Model of duplicate_cleaner.py: the three-phase duplicate funnel         *)
(* (find_duplicates), the deletion planner (analyze_duplicates), and the   *)
(* workflow of main (statistics, log, confirmation, deletion).             *)
(*                                                                         *)
(* File contents are sequences of blocks; one block stands for             *)
(* QUICK_HASH_SIZE bytes, so that a file's size in bytes is                *)
(* Len(content) * QUICK_HASH_SIZE and the quick hash reads one block.      *)
(***************************************************************************)
EXTENDS Integers, Sequences, FiniteSets, TLC

(***************************************************************************)
(* Program constants                                                       *)
(***************************************************************************)
BUFFER_SIZE == 262144

QUICK_HASH_SIZE == 8192

skip_patterns == {"$RECYCLE.BIN", "System Volume Information", "themes", "$Recycle.Bin"}

(***************************************************************************)
(* Bounds of the model                                                     *)
(***************************************************************************)
\* cpu_count() is drawn from 1..MaxCpu
MaxCpu == 2

\* number of files the environment may make unreadable during one run
MaxRemovals == 1

\* size of the modelled digest space (MD5 maps contents to a finite space)
DigestSpace == 7

\* the pool's chunk sizes (chunksize=50 and chunksize=20 in the source),
\* scaled to the modelled batch sizes so that a batch splits into several tasks
QuickChunk == 3

FullChunk == 2

\* number of calls of find_duplicates the idempotence harness makes
MaxRuns == 2

(***************************************************************************)
(* The tree: four files in three nested directories.                       *)
(***************************************************************************)
Paths == {"a", "b", "c", "d"}

Dirs == {"root", "d1", "d2"}

\* files of a directory, in the order os.walk lists them
DirFiles(d) == CASE d = "root" -> <<"a", "b">>
                 [] d = "d1"   -> <<"c">>
                 [] d = "d2"   -> <<"d">>

\* sub-directories of a directory, in the order os.walk lists them
SubDirs(d) == CASE d = "root" -> <<"d1">>
                [] d = "d1"   -> <<"d2">>
                [] d = "d2"   -> <<>>

\* basenames a directory below the root may have
DirNames == {"sub", "themes"}

\* contents: sequences of blocks
Contents == { <<>>, <<1, 2>>, <<2, 1>>, <<1, 1>> }

\* modification times
Mtimes == {1, 2}

\* time.time() - start_time at the end of a scan, in clock ticks: zero when
\* the clock has not advanced since the scan started
Elapsed == {0, 1}

\* what the user may type at the confirmation prompt
Answers == { <<"Y">>, <<" ", "Y", "e", "s", " ">>, <<"y", "e", "s">>, <<" ">> }

VARIABLES
    content,        \* path -> content of the file
    mtime,          \* path -> st_mtime, for the files whose time was read
    exists,         \* path -> the file can still be stat-ed and read
    dirname,        \* directory -> basename
    MULTIPROCESSING_AVAILABLE,
    pc,             \* position of the program
    error,          \* the exception that ended the program, or "none"
    workers,
    size_map,       \* insertion-ordered dict: sequence of [k, v]
    total_files,
    items,          \* the batch handed to parallel_hash
    hashes,         \* item index -> digest or None
    finished,       \* pool tasks in the order they completed
    quick_map,
    duplicates,     \* insertion-ordered dict fhash -> paths
    gi,             \* index of the group analyze_duplicates is at
    sorted_by_age,
    deletion_plan,  \* sequence of <<to_delete, to_keep, size>>
    stats,
    log_saved,
    response,
    di,             \* index of the plan entry delete_files is at
    counts,         \* [deleted, failed, freed] of delete_files
    removed,        \* files the environment made unreadable
    trashed,        \* files delete_files removed
    run,            \* number of the current call of find_duplicates
    prev            \* result of the previous call of find_duplicates

fsvars == <<content, mtime, dirname, MULTIPROCESSING_AVAILABLE>>

scanvars == <<size_map, total_files, items, hashes, finished, quick_map, duplicates>>

planvars == <<gi, sorted_by_age, deletion_plan, stats>>

mainvars == <<log_saved, response, di, counts, trashed>>

vars == <<content, mtime, exists, dirname, MULTIPROCESSING_AVAILABLE, pc, error,
          workers, size_map, total_files, items, hashes, finished, quick_map,
          duplicates, gi, sorted_by_age, deletion_plan, stats, log_saved, response,
          di, counts, removed, trashed, run, prev>>

(***************************************************************************)
(* Helpers                                                                 *)
(***************************************************************************)
None == -1

Min(x, y) == IF x < y THEN x ELSE y

\* float('inf'): larger than every modification time
INF == 1 + CHOOSE t \in Mtimes : \A u \in Mtimes : u <= t

Range(s) == { s[i] : i \in DOMAIN s }

\* index of x in the sequence s (0 when absent)
IndexOf(s, x) == IF \E i \in DOMAIN s : s[i] = x
                 THEN CHOOSE i \in DOMAIN s : s[i] = x /\ \A j \in 1..(i-1) : s[j] # x
                 ELSE 0

RECURSIVE SelectSeqBy(_, _)
\* the subsequence of s of the elements in the set S
SelectSeqBy(s, S) ==
    IF s = <<>> THEN <<>>
    ELSE IF Head(s) \in S THEN <<Head(s)>> \o SelectSeqBy(Tail(s), S)
         ELSE SelectSeqBy(Tail(s), S)

\* defaultdict(list)[k].append(x) on an insertion-ordered dict
DictAppend(m, k, x) ==
    IF \E i \in DOMAIN m : m[i].k = k
    THEN [i \in DOMAIN m |-> IF m[i].k = k THEN [k |-> k, v |-> Append(m[i].v, x)]
                                           ELSE m[i]]
    ELSE Append(m, [k |-> k, v |-> <<x>>])

RECURSIVE MultiValues_gt2(_)
\* mutant of MultiValues: buckets need more than two members to survive
MultiValues_gt2(m) ==
    IF m = <<>> THEN <<>>
    ELSE (IF Len(Head(m).v) > 2 THEN Head(m).v ELSE <<>>) \o MultiValues_gt2(Tail(m))

RECURSIVE MultiValues(_)
\* [p for paths in m.values() if len(paths) > 1 for p in paths]
MultiValues(m) ==
    IF m = <<>> THEN <<>>
    ELSE (IF Len(Head(m).v) > 1 THEN Head(m).v ELSE <<>>) \o MultiValues(Tail(m))

\* {h: p for h, p in m.items() if len(p) > 1}
MultiItems(m) == SelectSeq(m, LAMBDA e : Len(e.v) > 1)

(***************************************************************************)
(* Digests                                                                 *)
(***************************************************************************)
RECURSIVE md5_update(_, _)
\* hashlib.md5.update: absorbs the blocks of data into the digest state h.
\* MD5 maps arbitrarily long data to a finite digest space and so is not
\* injective; the modelled digest keeps that: it depends on every block and on
\* the length, and DigestSpace is small enough for Contents to hold a collision.
md5_update(h, data) ==
    IF data = <<>> THEN h
    ELSE md5_update((h + Head(data) + 1) % DigestSpace, Tail(data))

\* f.read(n) at the start of the data, n in bytes
read(data, n) == SubSeq(data, 1, Min(Len(data), n \div QUICK_HASH_SIZE))

\* what is left of the data after f.read(n)
rest(data, n) == SubSeq(data, Min(Len(data), n \div QUICK_HASH_SIZE) + 1, Len(data))

calculate_quick_hash(p) ==
    IF exists[p] THEN md5_update(0, read(content[p], QUICK_HASH_SIZE)) ELSE None

RECURSIVE full_hash_loop(_, _)
full_hash_loop(h, data) ==
    LET chunk == read(data, BUFFER_SIZE)
    IN  IF chunk = <<>> THEN h
        ELSE full_hash_loop(md5_update(h, chunk), rest(data, BUFFER_SIZE))

calculate_full_hash(p) ==
    IF exists[p] THEN full_hash_loop(0, content[p]) ELSE None

hash_file_wrapper(p, hash_type) ==
    IF hash_type = "quick" THEN calculate_quick_hash(p) ELSE calculate_full_hash(p)

st_size(p) == Len(content[p]) * QUICK_HASH_SIZE

\* st_mtime: the times the file system holds for the files that can be stat-ed
get_file_age(p, st_mtime) == IF exists[p] THEN st_mtime[p] ELSE INF

should_skip_directory(d) == dirname[d] \in skip_patterns

(***************************************************************************)
(* Phase 1: traversal                                                      *)
(***************************************************************************)
RECURSIVE os_walk(_)
\* the files os.walk reaches, in order; stack holds the directories to visit
os_walk(stack) ==
    IF stack = <<>> THEN <<>>
    ELSE LET d == Head(stack)
         IN  IF should_skip_directory(d)
             THEN os_walk(Tail(stack))
             ELSE DirFiles(d) \o os_walk(SubDirs(d) \o Tail(stack))

RECURSIVE index_by_size(_, _)
index_by_size(files, m) ==
    IF files = <<>> THEN m
    ELSE LET p == Head(files)
         IN  index_by_size(Tail(files),
                           IF exists[p] THEN DictAppend(m, st_size(p), p) ELSE m)

(***************************************************************************)
(* parallel_hash                                                           *)
(***************************************************************************)
\* the branch parallel_hash takes
UsePool == MULTIPROCESSING_AVAILABLE /\ workers > 1

hash_type == IF pc = "hash_quick" THEN "quick" ELSE "full"

chunksize == IF pc = "hash_quick" THEN QuickChunk ELSE FullChunk

\* number of tasks pool.imap cuts the batch into
NumTasks == (Len(items) + chunksize - 1) \div chunksize

\* the item indices of task k
TaskItems(k) == { i \in DOMAIN items : (i - 1) \div chunksize + 1 = k }

\* the item indices of task k, in input order
TaskSeq(k) == [j \in 1..Cardinality(TaskItems(k)) |-> (k - 1) * chunksize + j]

RECURSIVE CompletionOrder(_)
\* the item indices in the order in which their tasks completed
CompletionOrder(fin) ==
    IF fin = <<>> THEN <<>> ELSE TaskSeq(Head(fin)) \o CompletionOrder(Tail(fin))

\* mutant of imap: results come in completion order (imap_unordered)
imap_unordered(its, hs, fin) ==
    LET order == CompletionOrder(fin)
    IN  [j \in DOMAIN order |-> [path |-> its[order[j]], hash |-> hs[order[j]]]]

\* mutant of imap: hashes in completion order are paired with paths by position
imap_by_position(its, hs, fin) ==
    LET order == CompletionOrder(fin)
    IN  [j \in DOMAIN order |-> [path |-> its[j], hash |-> hs[order[j]]]]

\* list(pool.imap(func, items)): one (path, hash) per item, in input order
imap(its, hs, fin) == [i \in DOMAIN its |-> [path |-> its[i], hash |-> hs[i]]]

\* list(map(func, items))
map(its, hs) == [i \in DOMAIN its |-> [path |-> its[i], hash |-> hs[i]]]

\* what parallel_hash returns once the batch is complete
parallel_hash == IF UsePool THEN imap(items, hashes, finished) ELSE map(items, hashes)

BatchDone == IF UsePool THEN Len(finished) = NumTasks ELSE Len(finished) = Len(items)

\* a pool worker completes task k: any task not yet completed
PoolTask(k) ==
    /\ pc \in {"hash_quick", "hash_full"}
    /\ UsePool
    /\ k \in 1..NumTasks
    /\ k \notin Range(finished)
    /\ hashes' = [i \in DOMAIN items |->
                    IF i \in TaskItems(k) THEN hash_file_wrapper(items[i], hash_type)
                    ELSE hashes[i]]
    /\ finished' = Append(finished, k)
    /\ UNCHANGED <<fsvars, exists, pc, error, workers, size_map, total_files, items,
                   quick_map, duplicates, planvars, mainvars, removed, run, prev>>

\* the single-threaded fallback hashes the next item
MapNext ==
    /\ pc \in {"hash_quick", "hash_full"}
    /\ ~UsePool
    /\ Len(finished) < Len(items)
    /\ LET i == Len(finished) + 1
       IN  /\ hashes' = [hashes EXCEPT ![i] = hash_file_wrapper(items[i], hash_type)]
           /\ finished' = Append(finished, i)
    /\ UNCHANGED <<fsvars, exists, pc, error, workers, size_map, total_files, items,
                   quick_map, duplicates, planvars, mainvars, removed, run, prev>>

(***************************************************************************)
(* find_duplicates                                                         *)
(***************************************************************************)
RECURSIVE SumLen(_)
SumLen(m) == IF m = <<>> THEN 0 ELSE Len(Head(m).v) + SumLen(Tail(m))

\* workers as find_duplicates settles it (w = None: the default)
default_workers(w, n) ==
    IF w = None THEN (IF MULTIPROCESSING_AVAILABLE THEN n ELSE 1) ELSE w

\* the scan returns r; the locals of find_duplicates go out of scope
Return(r) ==
    /\ duplicates' = r
    /\ pc' = "returned"
    /\ workers' = None
    /\ size_map' = <<>>
    /\ total_files' = 0
    /\ quick_map' = <<>>
    /\ items' = <<>>
    /\ hashes' = <<>>
    /\ finished' = <<>>

\* hands the batch its to parallel_hash
Submit(its, phase) ==
    /\ items' = its
    /\ hashes' = [i \in DOMAIN its |-> None]
    /\ finished' = <<>>
    /\ pc' = phase
    /\ UNCHANGED <<workers, duplicates>>

\* phase 1 and the start of phase 2: index by size, pick the candidates
Phase1 ==
    /\ pc = "phase1"
    /\ LET m == index_by_size(os_walk(<<"root">>), <<>>)
           candidates == MultiValues(m)
       IN  IF candidates = <<>>
           THEN Return(<<>>)
           ELSE /\ size_map' = m
                /\ total_files' = SumLen(m)
                /\ quick_map' = <<>>
                /\ Submit(candidates, "hash_quick")
    /\ UNCHANGED <<fsvars, exists, error, planvars, mainvars, removed, run, prev>>

RECURSIVE group_quick(_, _)
\* for path, qhash in results: if qhash: quick_map[(size, qhash)].append(path)
\* (a hex digest is never empty, so "if qhash" is "qhash is not None")
group_quick(results, m) ==
    IF results = <<>> THEN m
    ELSE LET r == Head(results)
         IN  group_quick(Tail(results),
                         IF r.hash # None
                         THEN DictAppend(m, <<st_size(r.path), r.hash>>, r.path)
                         ELSE m)

\* the end of phase 2 and the start of phase 3
Phase2 ==
    /\ pc = "hash_quick"
    /\ BatchDone
    /\ LET results == parallel_hash
       IN  IF \E i \in DOMAIN results : results[i].hash # None /\ ~exists[results[i].path]
           THEN \* path.stat() raises
                /\ pc' = "crashed"
                /\ error' = "FileNotFoundError"
                /\ UNCHANGED <<workers, scanvars>>
           ELSE LET m == group_quick(results, <<>>)
                    final_candidates == MultiValues(m)
                IN  /\ error' = error
                    /\ IF final_candidates = <<>>
                       THEN Return(<<>>)
                       ELSE /\ quick_map' = m
                            /\ Submit(final_candidates, "hash_full")
                            /\ UNCHANGED <<size_map, total_files>>
    /\ UNCHANGED <<fsvars, exists, planvars, mainvars, removed, run, prev>>

RECURSIVE group_full_by_size(_, _)
\* mutant of group_full: the full-hash pass keys the groups by size
group_full_by_size(results, m) ==
    IF results = <<>> THEN m
    ELSE LET r == Head(results)
         IN  group_full_by_size(Tail(results),
                                IF r.hash # None THEN DictAppend(m, st_size(r.path), r.path)
                                ELSE m)

RECURSIVE group_full(_, _)
\* for path, fhash in results: if fhash: hash_map[fhash].append(path)
group_full(results, m) ==
    IF results = <<>> THEN m
    ELSE LET r == Head(results)
         IN  group_full(Tail(results),
                        IF r.hash # None THEN DictAppend(m, r.hash, r.path) ELSE m)

\* the end of phase 3: the regrouping, then the summary line, which divides
\* total_files by elapsed = time.time() - start_time before the return
Phase3(elapsed) ==
    /\ pc = "hash_full"
    /\ BatchDone
    /\ IF elapsed = 0
       THEN \* total_files/elapsed raises; nothing is returned
            /\ pc' = "crashed"
            /\ error' = "ZeroDivisionError"
            /\ UNCHANGED <<workers, scanvars>>
       ELSE /\ Return(MultiItems(group_full(parallel_hash, <<>>)))
            /\ error' = error
    /\ UNCHANGED <<fsvars, exists, planvars, mainvars, removed, run, prev>>

(***************************************************************************)
(* analyze_duplicates                                                      *)
(***************************************************************************)
RECURSIVE insert_by_age(_, _, _)
\* inserts p behind every element that is not newer than p
insert_by_age(s, p, st_mtime) ==
    IF s = <<>> THEN <<p>>
    ELSE IF get_file_age(Head(s), st_mtime) <= get_file_age(p, st_mtime)
         THEN <<Head(s)>> \o insert_by_age(Tail(s), p, st_mtime)
         ELSE <<p>> \o s

RECURSIVE sort_by_age(_, _, _)
\* sorted(file_paths, key=get_file_age): a stable sort
sort_by_age(file_paths, acc, st_mtime) ==
    IF file_paths = <<>> THEN acc
    ELSE sort_by_age(Tail(file_paths), insert_by_age(acc, Head(file_paths), st_mtime),
                     st_mtime)

\* mutant of oldest_file: keeps the newest file
newest_file(s) == s[Len(s)]

\* sorted_by_age[0]
oldest_file(s) == s[1]

\* mutant of newer_files: the whole group becomes delete targets
all_files(s) == s

\* sorted_by_age[1:]
newer_files(s) == Tail(s)

NoStats == [groups |-> 0, total_files |-> 0, files_to_delete |-> 0, files_to_keep |-> 0,
            space_total |-> 0, space_wasted |-> 0]

\* the members of the group at gi that can still be stat-ed
Live == IF pc = "sort" THEN { p \in Range(duplicates[gi].v) : exists[p] } ELSE {}

\* sorts the members of the group at gi; st_mtime holds the times the file
\* system returns for the members that can still be stat-ed
AnalyzeSort(st_mtime) ==
    /\ pc = "sort"
    /\ DOMAIN st_mtime = Live
    /\ mtime' = st_mtime @@ mtime
    /\ sorted_by_age' = sort_by_age(duplicates[gi].v, <<>>, st_mtime)
    /\ pc' = "stat"
    /\ UNCHANGED <<content, dirname, MULTIPROCESSING_AVAILABLE, exists, error, workers,
                   scanvars, gi, deletion_plan, stats, mainvars, removed, run, prev>>

\* stats the oldest file of the group at gi and extends the plan
AnalyzeGroup ==
    /\ pc = "stat"
    /\ LET keep == oldest_file(sorted_by_age)
           newer == newer_files(sorted_by_age)
           file_size == st_size(keep)
       IN  IF ~exists[keep]
           THEN \* oldest_file.stat() raises
                /\ pc' = "crashed"
                /\ error' = "FileNotFoundError"
                /\ UNCHANGED <<gi, deletion_plan, stats, sorted_by_age>>
           ELSE /\ stats' = [stats EXCEPT
                               !.total_files = @ + Len(duplicates[gi].v),
                               !.files_to_keep = @ + 1,
                               !.files_to_delete = @ + Len(newer),
                               !.space_total = @ + file_size,
                               !.space_wasted = @ + file_size * Len(newer)]
                /\ deletion_plan' = deletion_plan \o
                       [i \in DOMAIN newer |-> <<newer[i], keep, file_size>>]
                /\ sorted_by_age' = <<>>
                /\ error' = error
                /\ IF gi = Len(duplicates)
                   THEN pc' = "analyzed" /\ gi' = gi
                   ELSE pc' = "sort" /\ gi' = gi + 1
    /\ UNCHANGED <<fsvars, exists, workers, scanvars, mainvars, removed, run, prev>>

(***************************************************************************)
(* main                                                                    *)
(***************************************************************************)
\* str.strip() on a sequence of characters
RECURSIVE lstrip(_)
lstrip(s) == IF s # <<>> /\ Head(s) = " " THEN lstrip(Tail(s)) ELSE s

RECURSIVE rstrip(_)
rstrip(s) == IF s # <<>> /\ s[Len(s)] = " " THEN rstrip(SubSeq(s, 1, Len(s) - 1)) ELSE s

strip(s) == rstrip(lstrip(s))

lower_char(ch) == CASE ch = "Y" -> "y"
                    [] ch = "E" -> "e"
                    [] ch = "S" -> "s"
                    [] OTHER -> ch

\* str.lower()
lower(s) == [i \in DOMAIN s |-> lower_char(s[i])]

\* mutant of confirmed: everything but 'no' counts as consent
not_refused(r) == r # <<"n", "o">>

\* response in ['yes', 'y']
confirmed(r) == r \in { <<"y", "e", "s">>, <<"y">> }

Unasked == <<"?">>

\* the directory prompt and os.path.isdir
MainSelect(isdir) ==
    /\ pc = "start"
    /\ pc' = IF isdir THEN "configure" ELSE "exit1"
    /\ UNCHANGED <<fsvars, exists, error, workers, scanvars, planvars, mainvars,
                   removed, run, prev>>

\* workers = cpu_count(), then the call of find_duplicates
MainConfigure(n) ==
    /\ pc = "configure"
    /\ IF MULTIPROCESSING_AVAILABLE
       THEN /\ workers' = default_workers(n, n)
            /\ pc' = "phase1"
            /\ error' = error
       ELSE \* cpu_count was never imported
            /\ pc' = "crashed"
            /\ error' = "NameError"
            /\ workers' = workers
    /\ UNCHANGED <<fsvars, exists, scanvars, planvars, mainvars, removed, run, prev>>

\* if not duplicates: return 0; else the call of analyze_duplicates
MainScanned ==
    /\ pc = "returned"
    /\ IF duplicates = <<>>
       THEN /\ pc' = "exit0"
            /\ UNCHANGED planvars
       ELSE /\ pc' = "sort"
            /\ gi' = 1
            /\ deletion_plan' = <<>>
            /\ stats' = [NoStats EXCEPT !.groups = Len(duplicates)]
            /\ sorted_by_age' = <<>>
    /\ UNCHANGED <<fsvars, exists, error, workers, scanvars, mainvars, removed, run, prev>>

\* the denominator of the waste percentage
waste_denominator(st) == st.space_total + st.space_wasted

print_statistics ==
    /\ pc = "analyzed"
    /\ IF waste_denominator(stats) = 0
       THEN pc' = "crashed" /\ error' = "ZeroDivisionError"
       ELSE pc' = "save_log" /\ error' = error
    /\ UNCHANGED <<fsvars, exists, workers, scanvars, planvars, mainvars, removed, run, prev>>

save_log ==
    /\ pc = "save_log"
    /\ IF \E i \in DOMAIN deletion_plan : ~exists[deletion_plan[i][2]]
       THEN \* keep_file.stat() raises
            /\ pc' = "crashed"
            /\ error' = "FileNotFoundError"
            /\ log_saved' = log_saved
       ELSE /\ pc' = "confirm"
            /\ log_saved' = TRUE
            /\ error' = error
    /\ UNCHANGED <<fsvars, exists, workers, scanvars, planvars, response, di, counts,
                   trashed, removed, run, prev>>

\* the confirmation prompt
Confirm(raw) ==
    /\ pc = "confirm"
    /\ response' = lower(strip(raw))
    /\ IF confirmed(response')
       THEN IF deletion_plan = <<>> THEN pc' = "exit0" ELSE pc' = "delete"
       ELSE pc' = "exit0"
    /\ di' = 1
    /\ UNCHANGED <<fsvars, exists, error, workers, scanvars, planvars, log_saved, counts,
                   trashed, removed, run, prev>>

\* one turn of the loop of delete_files: send2trash or os.remove takes the
\* file away, or raises when the file is gone
delete_files ==
    /\ pc = "delete"
    /\ LET to_delete == deletion_plan[di][1]
           size == deletion_plan[di][3]
       IN  IF exists[to_delete]
           THEN /\ exists' = [exists EXCEPT ![to_delete] = FALSE]
                /\ trashed' = trashed \cup {to_delete}
                /\ counts' = [counts EXCEPT !.deleted = @ + 1, !.freed = @ + size]
           ELSE \* send2trash / os.remove raises: counted as failed
                /\ counts' = [counts EXCEPT !.failed = @ + 1]
                /\ UNCHANGED <<exists, trashed>>
    /\ IF di = Len(deletion_plan)
       THEN pc' = "exit0" /\ di' = di
       ELSE pc' = "delete" /\ di' = di + 1
    /\ UNCHANGED <<fsvars, error, workers, scanvars, planvars, log_saved, response,
                   removed, run, prev>>

(***************************************************************************)
(* The environment                                                         *)
(***************************************************************************)
\* the positions of main at which another process may remove a file: from the
\* walk of phase 1 (os.walk has listed the file, its stat is still to come)
\* to the confirmation prompt
Scanning == {"phase1", "hash_quick", "hash_full", "returned", "sort", "stat",
             "analyzed", "save_log", "confirm"}

\* a file os.walk lists is removed by somebody else
Remove(p) ==
    /\ pc \in Scanning
    /\ exists[p]
    /\ Cardinality(removed) < MaxRemovals
    /\ exists' = [exists EXCEPT ![p] = FALSE]
    /\ removed' = removed \cup {p}
    /\ UNCHANGED <<fsvars, pc, error, workers, scanvars, planvars, mainvars, run, prev>>

(***************************************************************************)
(* Direct calls of find_duplicates (the idempotence harness)               *)
(***************************************************************************)
\* find_duplicates(root, skip_patterns, w) is called
Call(w, n) ==
    /\ pc \in {"start", "returned"}
    /\ pc = "returned" => run < MaxRuns
    /\ run' = IF pc = "start" THEN 1 ELSE run + 1
    /\ prev' = duplicates
    /\ workers' = default_workers(w, n)
    /\ pc' = "phase1"
    /\ UNCHANGED <<fsvars, exists, error, scanvars, planvars, mainvars, removed>>

(***************************************************************************)
(* Specifications                                                          *)
(***************************************************************************)
\* files os.walk never reaches carry a fixed content
Reached == Range(os_walk(<<"root">>))

Init ==
    /\ dirname \in { f \in [Dirs -> DirNames \cup {"roms"}] :
                       f["root"] = "roms" /\ f["d1"] \in DirNames /\ f["d2"] \in DirNames }
    /\ content \in [Paths -> Contents]
    /\ \A p \in Paths \ Reached : content[p] = <<>>
    /\ mtime = [p \in {} |-> 1]
    /\ exists = [p \in Paths |-> TRUE]
    /\ MULTIPROCESSING_AVAILABLE \in BOOLEAN
    /\ pc = "start"
    /\ error = "none"
    /\ workers = 1
    /\ size_map = <<>>
    /\ total_files = 0
    /\ items = <<>>
    /\ hashes = <<>>
    /\ finished = <<>>
    /\ quick_map = <<>>
    /\ duplicates = <<>>
    /\ gi = 1
    /\ sorted_by_age = <<>>
    /\ deletion_plan = <<>>
    /\ stats = NoStats
    /\ log_saved = FALSE
    /\ response = Unasked
    /\ di = 1
    /\ counts = [deleted |-> 0, failed |-> 0, freed |-> 0]
    /\ removed = {}
    /\ trashed = {}
    /\ run = 0
    /\ prev = <<>>

Scan == \/ Phase1
        \/ \E k \in 1..Cardinality(Paths) : PoolTask(k)
        \/ MapNext
        \/ Phase2
        \/ \E elapsed \in Elapsed : Phase3(elapsed)

Next == \/ \E isdir \in BOOLEAN : MainSelect(isdir)
        \/ \E n \in 1..MaxCpu : MainConfigure(n)
        \/ Scan
        \/ MainScanned
        \/ \E st_mtime \in [Live -> Mtimes] : AnalyzeSort(st_mtime)
        \/ AnalyzeGroup
        \/ print_statistics
        \/ save_log
        \/ \E raw \in Answers : Confirm(raw)
        \/ delete_files
        \/ \E p \in Paths : Remove(p)

Spec == Init /\ [][Next]_vars

NextFunnel == \/ \E w \in {None} \cup (1..MaxCpu), n \in 1..MaxCpu : Call(w, n)
              \/ Scan

SpecFunnel == Init /\ [][NextFunnel]_vars

(***************************************************************************)
(* Properties                                                              *)
(***************************************************************************)
Traversal == os_walk(<<"root">>)

Members(i) == Range(duplicates[i].v)

\* the full digest of a content
Digest(c) == full_hash_loop(0, c)

\* find_duplicates has returned to main (or to the harness)
ScanReturned == pc \in {"returned", "sort", "stat", "analyzed", "save_log", "confirm",
                        "delete", "exit0"}

\* analyze_duplicates has returned its plan
PlanReturned == \/ pc \in {"analyzed", "save_log", "confirm", "delete"}
                \/ pc = "exit0" /\ response # Unasked

\* the KEEP files the plan names for the members of group i
KeepOf(i) == { deletion_plan[j][2] : j \in { n \in DOMAIN deletion_plan :
                                             deletion_plan[n][1] \in Members(i) } }

\* the plan entries that delete p
DeleteEntries(p) == { j \in DOMAIN deletion_plan : deletion_plan[j][1] = p }

\* the modification time of p as the program read it
Age(p) == IF p \in DOMAIN mtime THEN mtime[p] ELSE INF

SameContent(i) == \A p, q \in Members(i) : content[p] = content[q]

\* C1 (as stated): every group returned by find_duplicates contains only files
\* whose contents are identical to those of every other member of the group.
C1_ByteIdentical ==
    \A i \in DOMAIN duplicates : SameContent(i)

\* C1 (amended): every group returned by find_duplicates contains only files
\* whose full-content digest equals that of every other member of the group.
C1_SameDigest ==
    \A i \in DOMAIN duplicates : \A p, q \in Members(i) :
        Digest(content[p]) = Digest(content[q])

\* C1 witness: the scan returned a group holding two files of different content.
C1_Witness ==
    /\ ScanReturned
    /\ \E i \in DOMAIN duplicates : \E p, q \in Members(i) : content[p] # content[q]

\* C2: once the plan is returned, each group has one KEEP file, it is a member
\* with the minimum modification time among the members (a member that became
\* unreadable has no time), and every other member is a DELETE target exactly
\* once, with that KEEP file as its reference; the KEEP file is no target.
C2_KeepOldest ==
    PlanReturned =>
        \A i \in DOMAIN duplicates :
            \E k \in Members(i) :
                /\ KeepOf(i) = {k}
                /\ \A m \in Members(i) \ removed : Age(k) <= Age(m)
                /\ DeleteEntries(k) = {}
                /\ \A m \in Members(i) \ {k} :
                     /\ Cardinality(DeleteEntries(m)) = 1
                     /\ \A j \in DeleteEntries(m) : deletion_plan[j][2] = k

\* C2 witness: a plan was returned for an unchanged tree in which the KEEP file
\* of some group is not the member listed first and is strictly the oldest.
C2_Witness ==
    /\ PlanReturned
    /\ removed = {}
    /\ \E i \in DOMAIN duplicates : \E k \in KeepOf(i) :
         /\ k # duplicates[i].v[1]
         /\ Len(duplicates[i].v) > 2
         /\ \A m \in Members(i) \ {k} : Age(k) < Age(m)

\* C3: each path is in at most one group, at most once, and no KEEP file of the
\* plan is a DELETE target of the plan.
C3_Disjoint ==
    /\ \A i, j \in DOMAIN duplicates : i # j => Members(i) \cap Members(j) = {}
    /\ \A i \in DOMAIN duplicates : Cardinality(Members(i)) = Len(duplicates[i].v)
    /\ \A j, n \in DOMAIN deletion_plan : deletion_plan[j][2] # deletion_plan[n][1]

\* C3 witness: the plan returned covers two groups.
C3_Witness ==
    /\ PlanReturned
    /\ Len(duplicates) = 2
    /\ Len(deletion_plan) = 2

\* C4: a file becoming unreadable after the traversal recorded it never ends the
\* program with the exception of the failed stat or read.
C4_NoFileErrorEscapes ==
    removed # {} => ~(pc = "crashed" /\ error = "FileNotFoundError")

\* C5: a second call of find_duplicates on the unchanged tree returns the same
\* groups (as sets of sets of paths) as the call before it, whatever the worker
\* counts of the two calls and the order in which pool tasks completed.
C5_Idempotent ==
    (pc = "returned" /\ run > 1) =>
        { Range(duplicates[i].v) : i \in DOMAIN duplicates }
            = { Range(prev[i].v) : i \in DOMAIN prev }

\* C5 witness: the second call returned two groups.
C5_Witness ==
    /\ pc = "returned"
    /\ run = 2
    /\ Len(duplicates) = 2

\* the members of group i are listed in traversal order
InTraversalOrder(i) == duplicates[i].v = SelectSeqBy(Traversal, Members(i))

\* the KEEP file of group i comes first in traversal order among the readable
\* members that are as old as it, and no readable member is older
KeepFirstDiscovered(i) ==
    \A k \in KeepOf(i) : \A m \in Members(i) \ removed :
        \/ Age(k) < Age(m)
        \/ Age(k) = Age(m) /\ IndexOf(Traversal, k) <= IndexOf(Traversal, m)

\* C6 (as stated): every group lists its members in traversal order, and the
\* KEEP file is the first-discovered among the members with the minimum time.
C6_TraversalOrder ==
    \A i \in DOMAIN duplicates :
        /\ InTraversalOrder(i)
        /\ PlanReturned => KeepFirstDiscovered(i)

\* C6 (amended): the same, for every group whose members have identical content.
C6_TraversalOrderIdentical ==
    \A i \in DOMAIN duplicates :
        SameContent(i) =>
            /\ InTraversalOrder(i)
            /\ PlanReturned => KeepFirstDiscovered(i)

\* C6 witness: a plan was returned for a group of identical files in which two
\* members share the minimum time and the KEEP file is the first of them.
C6_Witness ==
    /\ PlanReturned
    /\ \E i \in DOMAIN duplicates :
         /\ SameContent(i)
         /\ \E k \in KeepOf(i) : \E m \in Members(i) \ {k} :
              /\ Age(m) = Age(k)
              /\ IndexOf(Traversal, k) < IndexOf(Traversal, m)
              /\ \E o \in Members(i) : IndexOf(Traversal, o) < IndexOf(Traversal, k)

\* C7: delete_files runs, and files are removed by it, only after the log was
\* saved and the answer was 'yes' or 'y'; the prompt comes after the log, the
\* log after the plan; a run that ends with return code 1, without duplicates
\* or with another answer removes nothing.
C7_WorkflowOrder ==
    /\ (pc = "delete" \/ trashed # {}) =>
          /\ log_saved
          /\ response \in { <<"y", "e", "s">>, <<"y">> }
          /\ duplicates # <<>>
    /\ response # Unasked => log_saved
    /\ log_saved => deletion_plan # <<>>
    /\ pc = "exit1" => trashed = {}

\* C7 witness: the run ended after delete_files removed a file.
C7_Witness ==
    /\ pc = "exit0"
    /\ trashed # {}

\* C8: without the multiprocessing facility a run of main on a valid directory
\* does not fail: it is never ended by the missing cpu_count.
C8_SingleThreadedFallback ==
    ~MULTIPROCESSING_AVAILABLE => ~(pc = "crashed" /\ error = "NameError")

\* C9: when find_duplicates has returned, any two files the traversal reached
\* that stayed readable and have identical content are in one group.
C9_Complete ==
    ScanReturned =>
        \A p, q \in Range(Traversal) \ removed :
            (p # q /\ content[p] = content[q]) =>
                \E i \in DOMAIN duplicates : {p, q} \subseteq Members(i)

\* C9 witness: the scan returned a group of identical files although another
\* file became unreadable during the scan.
C9_Witness ==
    /\ pc = "returned"
    /\ removed # {}
    /\ \E i \in DOMAIN duplicates : SameContent(i) /\ Members(i) \cap removed = {}

\* C10: whenever print_statistics is reached, the denominator of the waste
\* percentage is not zero, so its division cannot end the program.
C10_DenominatorNonZero ==
    pc = "analyzed" => waste_denominator(stats) # 0

====
